---- MODULE Spec2Model ----
(***************************************************************************)
(* RRSP contribution planner (src/RRSP.py).                                *)
(*                                                                         *)
(* Money is counted in whole dollars; a product with a percentage is       *)
(* rounded down to the dollar (MulPct).  Tax rates are integers in units   *)
(* of 1/RateScale, which makes every combined rate of the 2026 tables      *)
(* exact.  The percentages of a configuration are integers (5 = 0.05).     *)
(***************************************************************************)
EXTENDS Integers, Sequences, FiniteSets

VARIABLES
    cfg,                    \* the keyword arguments of optimize_rrsp_strategy
    pc,                     \* position inside optimize_rrsp_strategy
    combined_brackets,      \* sequence of <<threshold, rate>>, descending
    retirement_tax_rate,
    data,                   \* the Year Records appended so far
    accumulated_room,
    rrsp_balance,
    current_income_sim,
    year,
    total_room_available,
    match_contribution,
    cash_remaining,
    total_user_contribution,
    current_taxable_income,
    extra_contribution,
    k,                      \* index of the waterfall loop in combined_brackets
    start_marginal_rate

vars == <<cfg, pc, combined_brackets, retirement_tax_rate, data,
          accumulated_room, rrsp_balance, current_income_sim, year,
          total_room_available, match_contribution, cash_remaining,
          total_user_contribution, current_taxable_income,
          extra_contribution, k, start_marginal_rate>>

----------------------------------------------------------------------------
(* Arithmetic *)

RateScale == 100000000

RateHalf == 10000

Min2(a, b) == IF a <= b THEN a ELSE b

Min3(a, b, c) == Min2(a, Min2(b, c))

\* x * p / 100, rounded down to the dollar
MulPct(x, p) == (x * p) \div 100

\* x * r / RateScale rounded down, computed on the halves of x and r so that
\* no intermediate product leaves 32 bits
MulRate(x, r) ==
    LET a == x \div RateHalf
        b == x % RateHalf
        c == r \div RateHalf
        d == r % RateHalf
    IN  a * c + ((a * d + b * c + ((b * d) \div RateHalf)) \div RateHalf)

\* Python's round(n / d, 0): to the nearest integer, a tie to the even one
RoundHalfEven(n, d) ==
    LET q == n \div d
        r == n % d
    IN  IF 2 * r < d THEN q
        ELSE IF 2 * r > d THEN q + 1
        ELSE IF q % 2 = 0 THEN q ELSE q + 1

----------------------------------------------------------------------------
(* Bracket engine *)

\* rates in units of 1/10000
fed_brackets ==
    << <<258482, 3300>>, <<181440, 2900>>, <<117045, 2600>>,
       <<58523, 2050>>, <<0, 1400>> >>

qc_brackets ==
    << <<132245, 2575>>, <<108680, 2400>>, <<54345, 1900>>, <<0, 1400>> >>

\* the abatement 0.165, in units of 1/10000
Abatement == 1650

all_thresholds ==
    {fed_brackets[i][1] : i \in 1..Len(fed_brackets)}
        \cup {qc_brackets[i][1] : i \in 1..Len(qc_brackets)}

MaxOf(S) == CHOOSE x \in S : \A y \in S : y <= x

RECURSIVE SortDesc(_)
SortDesc(S) ==
    IF S = {} THEN << >>
    ELSE <<MaxOf(S)>> \o SortDesc(S \ {MaxOf(S)})

sorted_thresholds == SortDesc(all_thresholds)

\* the comparison made strict
RECURSIVE RateAbove(_, _, _)
RateAbove(t, table, i) ==
    IF i > Len(table) THEN 0
    ELSE IF t > table[i][1] THEN table[i][2]
    ELSE RateAbove(t, table, i + 1)

\* the inner for/break loops: the rate of the first bracket with t >= threshold,
\* 0 when there is none
RECURSIVE RateAt(_, _, _)
RateAt(t, table, i) ==
    IF i > Len(table) THEN 0
    ELSE IF t >= table[i][1] THEN table[i][2]
    ELSE RateAt(t, table, i + 1)

CombinedRate(t) ==
    RateAt(t, fed_brackets, 1) * (RateHalf - Abatement)
        + RateAt(t, qc_brackets, 1) * RateHalf

get_combined_brackets ==
    [i \in 1..Len(sorted_thresholds) |->
        <<sorted_thresholds[i], CombinedRate(sorted_thresholds[i])>>]

RECURSIVE LookupFrom(_, _, _)
LookupFrom(income, brackets, i) ==
    IF i > Len(brackets) THEN brackets[Len(brackets)][2]
    ELSE IF income > brackets[i][1] THEN brackets[i][2]
    ELSE LookupFrom(income, brackets, i + 1)

\* the fallback taken from the wrong end of the schedule
get_marginal_tax_rate_first(income, brackets) ==
    IF income > brackets[Len(brackets)][1] THEN LookupFrom(income, brackets, 1)
    ELSE brackets[1][2]

get_marginal_tax_rate(income, brackets) == LookupFrom(income, brackets, 1)

----------------------------------------------------------------------------
(* Constants of optimize_rrsp_strategy *)

rrsp_max_limit_2026 == 33810

limit_indexing == 2

BaseYear == 2026

avg_past_income == 15000

RoomAccrualPct == 18

Horizon == 10

MatchReportPct == 5

\* rrsp_max_limit_2026 * (1 + limit_indexing) ** (y - 2026), to the dollar
RECURSIVE annual_max(_)
annual_max(y) ==
    IF y = BaseYear THEN rrsp_max_limit_2026
    ELSE IF y > BaseYear THEN MulPct(annual_max(y - 1), 100 + limit_indexing)
    ELSE (annual_max(y + 1) * 100) \div (100 + limit_indexing)

end_year == cfg.full_time_start_year + Horizon

----------------------------------------------------------------------------
(* Configurations *)

Config(cy, sey, cai, fts, wage, g, m, rf, target, s) ==
    [current_year |-> cy, start_earning_year |-> sey,
     current_annual_income |-> cai, full_time_start_year |-> fts,
     expected_full_time_wage |-> wage, wage_growth_rate |-> g,
     employer_match_rate |-> m, risk_free_rate |-> rf,
     retirement_income_target |-> target, savings_rate_gross |-> s]

Configs(SEY, CAI, FTS, WAGE, G, M, TARGET, S) ==
    {Config(2026, sey, cai, fts, wage, g, m, 5, target, s) :
        sey \in SEY, cai \in CAI, fts \in FTS, wage \in WAGE, g \in G,
        m \in M, target \in TARGET, s \in S}

\* savings_rate_gross > 0 and employer_match_rate in [0, 1]
ValidConfigs ==
    Configs({2020, 2026}, {25000, 90000}, {2025, 2026, 2028},
            {85000, 200000}, {0, 3}, {0, 5, 30}, {20000, 60000, 300000},
            {10, 50})

\* the same, and the configurations the specification calls invalid
AnyConfigs ==
    Configs({2020}, {25000}, {2025, 2026, 2028}, {85000}, {0, 3},
            {-5, 5, 120}, {20000, 60000}, {-10, 0, 25})

\* incomes on and within ProbeWidth dollars of every threshold of the schedule
ProbeWidth == 1

ProbeIncomes ==
    {i \in UNION {(t - ProbeWidth)..(t + ProbeWidth) : t \in all_thresholds} :
        i >= 0}

LookupConfigs ==
    {Config(2026, 2026, cai, 2027, 85000, 0, 5, 5, target, 25) :
        cai \in ProbeIncomes, target \in ProbeIncomes}

InvalidConfig ==
    \/ cfg.savings_rate_gross <= 0
    \/ cfg.employer_match_rate < 0
    \/ cfg.employer_match_rate > 100
    \/ cfg.full_time_start_year < cfg.current_year

----------------------------------------------------------------------------
(* optimize_rrsp_strategy *)

InitWith(C) ==
    /\ cfg \in C
    /\ pc = "entry"
    /\ combined_brackets = << >>
    /\ retirement_tax_rate = 0
    /\ data = << >>
    /\ accumulated_room = 0
    /\ rrsp_balance = 0
    /\ current_income_sim = 0
    /\ year = 0
    /\ total_room_available = 0
    /\ match_contribution = 0
    /\ cash_remaining = 0
    /\ total_user_contribution = 0
    /\ current_taxable_income = 0
    /\ extra_contribution = 0
    /\ k = 0
    /\ start_marginal_rate = 0

Init == InitWith(ValidConfigs)

InitAny == InitWith(AnyConfigs)

InitLookup == InitWith(LookupConfigs)

\* lines 76-101: the schedule, the retirement rate, the past room, the loop's start
Enter ==
    /\ pc = "entry"
    /\ combined_brackets' = get_combined_brackets
    /\ retirement_tax_rate' =
         get_marginal_tax_rate(cfg.retirement_income_target, get_combined_brackets)
    /\ data' = << >>
    /\ accumulated_room' =
         MulPct(avg_past_income, RoomAccrualPct)
            * (cfg.current_year - cfg.start_earning_year)
    /\ rrsp_balance' = 0
    /\ current_income_sim' = cfg.current_annual_income
    /\ year' = cfg.current_year
    /\ pc' = IF cfg.current_year <= end_year THEN "year" ELSE "returned"
    /\ UNCHANGED <<cfg, total_room_available, match_contribution, cash_remaining,
                   total_user_contribution, current_taxable_income,
                   extra_contribution, k, start_marginal_rate>>

\* lines 104-108
UpdateIncome(y, income) ==
    IF y >= cfg.full_time_start_year
    THEN IF y = cfg.full_time_start_year
         THEN cfg.expected_full_time_wage
         ELSE MulPct(income, 100 + cfg.wage_growth_rate)
    ELSE income

\* lines 111-115
NewRoom(y, income) ==
    LET new_room_generated == MulPct(income, RoomAccrualPct)
    IN  IF new_room_generated > annual_max(y) THEN annual_max(y)
        ELSE new_room_generated

\* lines 103-145: the loop body up to the waterfall loop
BeginYear ==
    /\ pc = "year"
    /\ LET income == UpdateIncome(year, current_income_sim)
           user_base_contribution == MulPct(income, cfg.employer_match_rate)
       IN  /\ current_income_sim' = income
           /\ total_room_available' = accumulated_room + NewRoom(year, income)
           /\ match_contribution' = MulPct(income, cfg.employer_match_rate)
           /\ cash_remaining' =
                MulPct(income, cfg.savings_rate_gross) - user_base_contribution
           /\ total_user_contribution' = user_base_contribution
           /\ current_taxable_income' = income - user_base_contribution
    /\ extra_contribution' = 0
    /\ k' = 1
    /\ pc' = "waterfall"
    /\ UNCHANGED <<cfg, combined_brackets, retirement_tax_rate, data,
                   accumulated_room, rrsp_balance, year, start_marginal_rate>>

\* the comparison made strict
NoBenefitStrict(rate) == rate < retirement_tax_rate

\* line 151: a bracket the waterfall passes over

NoBenefit(rate) == rate <= retirement_tax_rate

\* the break taken after the first band, whatever is left
ExhaustedAlways(cash, room_left) == TRUE

\* line 171: the break

Exhausted(cash, room_left) == cash <= 0 \/ room_left <= 0

\* lines 150-172: one iteration of the waterfall loop
WaterfallStep ==
    /\ pc = "waterfall"
    /\ LET threshold == combined_brackets[k][1]
           rate == combined_brackets[k][2]
           skip == NoBenefit(rate)
           above == ~skip /\ current_taxable_income > threshold
           income_in_band == current_taxable_income - threshold
           room_remaining == total_room_available - total_user_contribution
           amount_to_contribute ==
               Min3(income_in_band, room_remaining, cash_remaining)
           amount == IF above /\ amount_to_contribute > 0
                     THEN amount_to_contribute ELSE 0
           stop == /\ above
                   /\ Exhausted(cash_remaining - amount,
                                total_room_available
                                    - (total_user_contribution + amount))
       IN  /\ extra_contribution' = extra_contribution + amount
           /\ total_user_contribution' = total_user_contribution + amount
           /\ cash_remaining' = cash_remaining - amount
           /\ current_taxable_income' = current_taxable_income - amount
           /\ IF stop \/ k = Len(combined_brackets)
              THEN pc' = "close" /\ k' = k
              ELSE pc' = "waterfall" /\ k' = k + 1
    /\ UNCHANGED <<cfg, combined_brackets, retirement_tax_rate, data,
                   accumulated_room, rrsp_balance, current_income_sim, year,
                   total_room_available, match_contribution,
                   start_marginal_rate>>

\* the safety check left out
ClampNone(contribution, room) == contribution

\* lines 175-176
Clamp(contribution, room) ==
    IF contribution > room THEN room ELSE contribution

\* lines 208-217
RECURSIVE TaxSavings(_, _, _, _)
TaxSavings(i, temp_income, remaining, tax_savings) ==
    IF i > Len(combined_brackets) THEN tax_savings
    ELSE IF temp_income > combined_brackets[i][1]
    THEN LET chunk == Min2(temp_income - combined_brackets[i][1], remaining)
             saved == tax_savings + MulRate(chunk, combined_brackets[i][2])
         IN  IF remaining - chunk <= 0 THEN saved
             ELSE TaxSavings(i + 1, temp_income - chunk, remaining - chunk, saved)
    ELSE TaxSavings(i + 1, temp_income, remaining, tax_savings)

\* line 224
ReportedMatch(match) == RoundHalfEven(match * MatchReportPct, 100)

\* the label decided with >= in place of >
StrategyAlways(extra) == IF extra >= 0 THEN "Optimized" ELSE "Match + Hold"

\* line 229
Strategy(extra) == IF extra > 0 THEN "Optimized" ELSE "Match + Hold"

\* lines 219-230; the marginal rate is the text of round(rate * 100, 1),
\* kept as the number of tenths of a percent
YearRecord(y, income, marginal, contribution, match, inflow, room, left, savings, extra) ==
    [Year |-> y,
     Income |-> income,
     MarginalRate |-> RoundHalfEven(marginal, RateScale \div 1000),
     Contribution |-> contribution,
     EmployerMatch |-> ReportedMatch(match),
     TotalInvested |-> inflow,
     TotalRoomAvailable |-> room,
     RRSPRoomLeft |-> left,
     TaxSavings |-> savings,
     Strategy |-> Strategy(extra)]

\* lines 174-230 and the loop's step: the clamp, the balances, the record
CloseYear ==
    /\ pc = "close"
    /\ LET contribution == Clamp(total_user_contribution, total_room_available)
           left == total_room_available - contribution
           total_inflow == contribution + match_contribution
           marginal == get_marginal_tax_rate(current_income_sim, combined_brackets)
       IN  /\ total_user_contribution' = contribution
           /\ accumulated_room' = left
           /\ rrsp_balance' =
                MulPct(rrsp_balance, 100 + cfg.risk_free_rate) + total_inflow
           /\ start_marginal_rate' = marginal
           /\ data' = Append(data,
                YearRecord(year, current_income_sim, marginal, contribution,
                           match_contribution, total_inflow,
                           total_room_available, left,
                           TaxSavings(1, current_income_sim, contribution, 0),
                           extra_contribution))
    /\ IF year < end_year
       THEN pc' = "year" /\ year' = year + 1
       ELSE pc' = "returned" /\ year' = year
    /\ UNCHANGED <<cfg, combined_brackets, retirement_tax_rate,
                   current_income_sim, total_room_available, match_contribution,
                   cash_remaining, current_taxable_income, extra_contribution, k>>

Next == Enter \/ BeginYear \/ WaterfallStep \/ CloseYear

Spec == Init /\ [][Next]_vars

SpecAny == InitAny /\ [][Next]_vars

SpecLookup == InitLookup /\ [][Next]_vars

----------------------------------------------------------------------------
(* Properties *)

\* a Year Record has just been appended: the year's locals are still in place
Recorded == pc \in {"year", "returned"} /\ Len(data) > 0

Last == data[Len(data)]

MatchBase == MulPct(current_income_sim, cfg.employer_match_rate)

CashAvailable == MulPct(current_income_sim, cfg.savings_rate_gross)

ScheduleRates == {combined_brackets[i][2] : i \in 1..Len(combined_brackets)}

EntryRate(t) ==
    LET i == CHOOSE j \in 1..Len(combined_brackets) : combined_brackets[j][1] = t
    IN  combined_brackets[i][2]

\* the retirement rate is at least the rate of every entry the income touches
NoArbitrage ==
    \A i \in 1..Len(combined_brackets) :
        combined_brackets[i][1] < current_income_sim
            => combined_brackets[i][2] <= retirement_tax_rate

C2_WithinCash ==
    Recorded => total_user_contribution <= CashAvailable

\* C3: the marginal-rate lookup returns a rate of the combined schedule, and
\* of two incomes the smaller one never gets the greater rate (the two
\* lookups of a run: at retirement_income_target and at the year's income).
C3_LookupMonotone ==
    Recorded =>
        /\ retirement_tax_rate \in ScheduleRates
        /\ start_marginal_rate \in ScheduleRates
        /\ cfg.retirement_income_target <= current_income_sim
              => retirement_tax_rate <= start_marginal_rate
        /\ current_income_sim <= cfg.retirement_income_target
              => start_marginal_rate <= retirement_tax_rate

\* two incomes one dollar apart, on the two sides of a bracket boundary
C3_Witness ==
    /\ Recorded
    /\ current_income_sim + 1 = cfg.retirement_income_target
    /\ start_marginal_rate < retirement_tax_rate

\* C4 as stated: for retirement_income_target = 60000 the retirement rate is
\* the combined rate of the entry with threshold 54345, and it is 0.4071.
C4_RateOf54345 ==
    (pc # "entry" /\ cfg.retirement_income_target = 60000) =>
        /\ retirement_tax_rate = EntryRate(54345)
        /\ retirement_tax_rate * 10000 = 4071 * RateScale

\* C4 amended: for retirement_income_target = 60000 the retirement rate is
\* the combined rate of the entry with threshold 58523, the highest threshold
\* below 60000, and it is 0.205 * 0.835 + 0.19 = 0.361175.
C4_RateOf58523 ==
    (pc # "entry" /\ cfg.retirement_income_target = 60000) =>
        /\ retirement_tax_rate = EntryRate(58523)
        /\ retirement_tax_rate = 36117500
        /\ retirement_tax_rate = 2050 * (RateHalf - Abatement) + 1900 * RateHalf

C4_Witness ==
    /\ pc = "year"
    /\ data = << >>
    /\ cfg.retirement_income_target = 60000
    /\ retirement_tax_rate = 36117500

\* C5 as stated: in a year where the retirement rate is at least the rate of
\* every entry whose threshold is below the income, the extra contribution is
\* 0, the user contribution is income * employer_match_rate and the label is
\* "Match + Hold".
C5_MatchOnly ==
    (Recorded /\ NoArbitrage) =>
        /\ extra_contribution = 0
        /\ total_user_contribution = MatchBase
        /\ Last.Contribution = MatchBase
        /\ Last.Strategy = "Match + Hold"

\* C5 amended: in such a year the extra contribution is 0, the label is
\* "Match + Hold" and the user contribution is income * employer_match_rate
\* cut back to total_room_available when it is more than that.
C5_MatchOnlyWithinRoom ==
    (Recorded /\ NoArbitrage) =>
        /\ extra_contribution = 0
        /\ total_user_contribution = Min2(MatchBase, total_room_available)
        /\ Last.Contribution = Min2(MatchBase, total_room_available)
        /\ Last.Strategy = "Match + Hold"

\* income 85000 at match rate 0.05 against a retirement rate equal to the
\* rate of the bracket the income is in: 4250 contributed, nothing more
C5_Witness ==
    /\ Recorded
    /\ NoArbitrage
    /\ current_income_sim = 85000
    /\ cfg.employer_match_rate = 5
    /\ start_marginal_rate = retirement_tax_rate
    /\ total_user_contribution = 4250
    /\ Last.Strategy = "Match + Hold"

\* C6: in every Year Record the reported employer match is income *
\* employer_match_rate, the amount added to the user contribution to form
\* the reported total inflow.
C6_ReportedMatch ==
    Recorded =>
        /\ Last.EmployerMatch = MulPct(Last.Income, cfg.employer_match_rate)
        /\ Last.TotalInvested = Last.Contribution + Last.EmployerMatch

\* C7: a call with an invalid configuration produces no Year Record and
\* returns nothing, so no negative contribution either.
C7_RejectedAtEntry ==
    InvalidConfig =>
        /\ Len(data) = 0
        /\ pc # "returned"

\* C8: when a year's waterfall loop ends, the cash is used up, or the room is
\* used up, or the remaining taxable income is above the threshold of no
\* entry whose rate is greater than the retirement rate.
C8_WaterfallRunsDry ==
    pc = "close" =>
        \/ cash_remaining <= 0
        \/ total_room_available - total_user_contribution <= 0
        \/ \A i \in 1..Len(combined_brackets) :
              combined_brackets[i][2] > retirement_tax_rate
                  => ~(current_taxable_income > combined_brackets[i][1])

\* the loop ran to its end with cash and room left, after filling two bands
C8_Witness ==
    /\ pc = "close"
    /\ cash_remaining > 0
    /\ total_room_available - total_user_contribution > 0
    /\ extra_contribution > 0
    /\ k = Len(combined_brackets)
    /\ \E i \in 2..Len(combined_brackets) :
          /\ combined_brackets[i][2] > retirement_tax_rate
          /\ current_taxable_income = combined_brackets[i][1]
          /\ current_income_sim - MatchBase > combined_brackets[i - 1][1]

\* C9: a Year Record is labelled "Optimized" exactly when its final user
\* contribution, after the clamp, is more than income * employer_match_rate,
\* and "Match + Hold" otherwise.
C9_LabelMatchesContribution ==
    Recorded =>
        /\ Last.Strategy = "Optimized" <=> Last.Contribution > MatchBase
        /\ Last.Strategy = "Optimized" <=> total_user_contribution > MatchBase
        /\ Last.Strategy # "Optimized" => Last.Strategy = "Match + Hold"

\* an optimized year that used all the room of the year
C9_Witness ==
    /\ Recorded
    /\ Last.Strategy = "Optimized"
    /\ Last.Contribution = Last.TotalRoomAvailable
    /\ Last.Contribution > MatchBase

FirstFullTimeYear ==
    IF cfg.full_time_start_year >= cfg.current_year
    THEN cfg.full_time_start_year ELSE cfg.current_year

\* C10: income is current_annual_income in every year before
\* full_time_start_year, expected_full_time_wage in the first simulated year
\* that is >= full_time_start_year, and the previous year's income *
\* (1 + wage_growth_rate) in every later year.
C10_IncomeTrajectory ==
    \A i \in 1..Len(data) :
        /\ data[i].Year < cfg.full_time_start_year
              => data[i].Income = cfg.current_annual_income
        /\ data[i].Year = FirstFullTimeYear
              => data[i].Income = cfg.expected_full_time_wage
        /\ data[i].Year > FirstFullTimeYear
              => data[i].Income
                    = MulPct(data[i - 1].Income, 100 + cfg.wage_growth_rate)

====
